---- MODULE Spec2Model ----
(***************************************************************************)
(* A model of the reflection/binding engine of terraform-plugin-framework *)
(* (package internal/reflect): struct tag discovery, the capability-hook  *)
(* converters, the attr.Value converters and the map converters.          *)
(*                                                                         *)
(* Every converter is a pure function of its arguments (and, for the map  *)
(* converters, of the order in which the Go runtime ranges over a map).   *)
(* A behaviour of the model draws one call with its arguments (Init) and  *)
(* executes it (one action per converter); the state after the action     *)
(* holds the returned value, the returned diagnostics and the trace of    *)
(* the calls the converter made on its collaborators.                     *)
(***************************************************************************)
EXTENDS Integers, Sequences, FiniteSets, TLC

VARIABLES pc, call, res

vars == <<pc, call, res>>

(***************************************************************************)
(* Bounds of the model.                                                    *)
(***************************************************************************)
\* the largest number of fields of a structure handed to getStructTags
MaxFields == 3
\* the largest number of entries of a map handed to Map or FromMap
MaxEntries == 2

(***************************************************************************)
(* Paths (tftypes.AttributePath): immutable sequences of steps.            *)
(***************************************************************************)
WithAttributeName(path, name) == Append(path, <<"AttributeName", name>>)

WithElementKeyString(path, key) == Append(path, <<"ElementKeyString", key>>)

\* the paths a caller hands to a converter
Paths == { <<>>, << <<"AttributeName", "m">> >> }

\* the absent value (Go's nil)
Nil == [nil |-> TRUE]

(***************************************************************************)
(* getStructTags and isValidFieldName.                                     *)
(* A tag is the sequence of its characters; a structure type is the       *)
(* sequence of its fields, each with its export flag and its tfsdk tag.   *)
(***************************************************************************)
LowerCase ==
    {"a", "b", "c", "d", "e", "f", "g", "h", "i", "j", "k", "l", "m",
     "n", "o", "p", "q", "r", "s", "t", "u", "v", "w", "x", "y", "z"}

Digits == {"0", "1", "2", "3", "4", "5", "6", "7", "8", "9"}

\* ^[a-z][a-z0-9_]*$
isValidFieldName_anyFirst(name) ==
    /\ Len(name) >= 1
    /\ \A i \in 1..Len(name) : name[i] \in LowerCase \cup Digits \cup {"_"}

isValidFieldName(name) ==
    /\ Len(name) >= 1
    /\ name[1] \in LowerCase
    /\ \A i \in 2..Len(name) : name[i] \in LowerCase \cup Digits \cup {"_"}

\* the tag that excludes a field from binding
ExcludeTag == <<"-">>

\* the error values path.NewError / path.NewErrorf build
NewError(path, msg) == [nil |-> FALSE, path |-> path, msg |-> msg]

\* the tag map of a successful call
TagMap(tags) == [nil |-> FALSE, m |-> tags]

\* trueReflectValue(in): reflect.ValueOf(in), then the value beneath the
\* pointers and interfaces. in, an interface{}, is described by the kind
\* beneath them (kind) and by how it is reached (ref): "value", "pointer",
\* "nilpointer" or "nil" (the nil interface). Reading the type of what a nil
\* pointer points to, or of the nil interface, panics.
trueReflectValue(in) ==
    IF in.ref \in {"nilpointer", "nil"} THEN [panic |-> TRUE, kind |-> "invalid"]
    ELSE [panic |-> FALSE, kind |-> in.kind]

\* the loop of getStructTags from field index i on (Go counts fields from 0),
\* with the tags found so far
RECURSIVE structTagsFrom(_, _, _, _)
structTagsFrom(fields, i, tags, path) ==
    IF ~(i < Len(fields)) THEN [tags |-> TagMap(tags), err |-> Nil, panic |-> FALSE]
    ELSE LET field == fields[i + 1]
             tag   == field.tag
         IN  IF ~field.exported THEN structTagsFrom(fields, i + 1, tags, path)
             ELSE IF tag = ExcludeTag THEN structTagsFrom(fields, i + 1, tags, path)
             ELSE IF tag = <<>> THEN
                 [tags |-> Nil, err |-> NewError(path, "need a struct tag"), panic |-> FALSE]
             ELSE IF ~isValidFieldName(tag) THEN
                 [tags |-> Nil,
                  err |-> NewError(WithAttributeName(path, tag), "invalid field name"),
                  panic |-> FALSE]
             ELSE IF tag \in DOMAIN tags THEN
                 [tags |-> Nil,
                  err |-> NewError(WithAttributeName(path, tag), "can't use field name for both"),
                  panic |-> FALSE]
             ELSE structTagsFrom(fields, i + 1, (tag :> i) @@ tags, path)

getStructTags_emptyTagAtField(in, path) ==
    IF trueReflectValue(in).panic
    THEN [tags |-> Nil, err |-> Nil, panic |-> TRUE]
    ELSE IF trueReflectValue(in).kind # "struct"
    THEN [tags |-> Nil, err |-> NewError(path, "is not a struct"), panic |-> FALSE]
    ELSE LET r == structTagsFrom(in.fields, 0, <<>>, path)
         IN  IF ~r.err.nil /\ r.err.msg = "need a struct tag"
             THEN [r EXCEPT !.err.path = WithAttributeName(path, <<>>)]
             ELSE r

getStructTags(in, path) ==
    IF trueReflectValue(in).panic
    THEN [tags |-> Nil, err |-> Nil, panic |-> TRUE]
    ELSE IF trueReflectValue(in).kind # "struct"
    THEN [tags |-> Nil, err |-> NewError(path, "is not a struct"), panic |-> FALSE]
    ELSE structTagsFrom(in.fields, 0, <<>>, path)

(***************************************************************************)
(* Diagnostics (package diag): an ordered collection of severity-tagged,  *)
(* path-qualified notices.                                                 *)
(***************************************************************************)
NewAttributeErrorDiagnostic(path, detail) ==
    [severity |-> "error", kind |-> "AttributeErrorDiagnostic",
     detail |-> detail, path |-> path]

toTerraform5ValueErrorDiag(path) ==
    NewAttributeErrorDiagnostic(path, "convert into a Terraform value")

toTerraformValueErrorDiag(path) ==
    NewAttributeErrorDiagnostic(path, "convert the Attribute value into a Terraform value")

validateValueErrorDiag(path) ==
    NewAttributeErrorDiagnostic(path, "validate the Terraform value type")

valueFromTerraformErrorDiag(path) ==
    NewAttributeErrorDiagnostic(path, "convert the Terraform value")

DiagIntoIncompatibleType(path, err) ==
    [severity |-> "error", kind |-> "DiagIntoIncompatibleType",
     detail |-> err, path |-> path]

DiagNewAttributeValueIntoWrongType(path) ==
    [severity |-> "error", kind |-> "DiagNewAttributeValueIntoWrongType",
     detail |-> "convert into a Terraform value", path |-> path]

\* the diagnostics of the test types' Validate methods
TestWarningDiagnostic(path) ==
    [severity |-> "warning", kind |-> "TestWarningDiagnostic",
     detail |-> "warning", path |-> path]

TestErrorDiagnostic(path) ==
    [severity |-> "error", kind |-> "TestErrorDiagnostic",
     detail |-> "error", path |-> path]

\* diags.Append(in...): the new diagnostics go to the end, in order
DiagsAppend(diags, in) == diags \o in

\* diags.HasError()
HasError(diags) == \E i \in 1..Len(diags) : diags[i].severity = "error"

(***************************************************************************)
(* Raw transport values (tftypes.Value) and their types.                   *)
(***************************************************************************)
TfString == [kind |-> "string", elem |-> "none"]

TfNumber == [kind |-> "number", elem |-> "none"]

TfMap(elemKind) == [kind |-> "map", elem |-> elemKind]

\* the Go payloads handed to tftypes.NewValue and tftypes.ValidateValue:
\* nil, tftypes.UnknownValue, a string, a number, a map of raw values
NilPayload == [kind |-> "nil", v |-> "nil"]

UnknownPayload == [kind |-> "unknown", v |-> "unknown"]

StringPayload(s) == [kind |-> "string", v |-> s]

NumberPayload == [kind |-> "number", v |-> "0"]

MapPayload(elems) == [kind |-> "map", v |-> "map", elems |-> elems]

\* tftypes.ValidateValue(typ, payload) returns no error: nil and unknown fit
\* every type, a primitive fits its own type, a map fits a map type when
\* every element has the map's element type
ValidateValue(tfType, payload) ==
    CASE payload.kind \in {"nil", "unknown"} -> TRUE
      [] payload.kind = "map" ->
             /\ tfType.kind = "map"
             /\ \A k \in DOMAIN payload.elems : payload.elems[k].ty.kind = tfType.elem
      [] OTHER -> payload.kind = tfType.kind

\* tftypes.NewValue(typ, payload), for a payload that fits typ
NewValue(tfType, payload) ==
    LET st == CASE payload.kind = "nil" -> "null"
                [] payload.kind = "unknown" -> "unknown"
                [] OTHER -> "known"
    IN  IF payload.kind = "map"
        THEN [ty |-> tfType, st |-> st, v |-> payload.v, elems |-> payload.elems]
        ELSE [ty |-> tfType, st |-> st, v |-> payload.v]

\* val.IsNull(): only the null value; an unknown value is not null
IsNull(val) == val.st = "null"

\* val.IsKnown()
IsKnown(val) == val.st # "unknown"

\* the payload a raw value wraps
PayloadOf(val) ==
    CASE val.st = "null" -> NilPayload
      [] val.st = "unknown" -> UnknownPayload
      [] val.ty.kind = "map" -> MapPayload(val.elems)
      [] OTHER -> [kind |-> val.ty.kind, v |-> val.v]

\* the string a known string value holds ("none" for every other value)
StringOf(val) == IF val.ty.kind = "string" /\ val.st = "known" THEN val.v ELSE "none"

(***************************************************************************)
(* attr.Type and attr.Value.  A Type is described by how its methods      *)
(* behave:                                                                 *)
(*   tfType    what TerraformType returns                                  *)
(*   validate  "none": the Type has no Validate method;                    *)
(*             "warning" / "error": Validate returns one warning / error   *)
(*             (testtypes.StringTypeWithValidateWarning / ...Error);       *)
(*             "byValue": Validate checks the string: "odd" gets a         *)
(*             warning, "bad" a warning and an error                       *)
(*   vft       "ok" / "err": whether ValueFromTerraform returns an error   *)
(*   valType   the Go type of the Values ValueFromTerraform returns         *)
(*   elem      the element Type, for a TypeWithElementType only            *)
(***************************************************************************)
HasValidate(typ) == typ.validate # "none"

\* typeWithValidate.Validate(ctx, val, path)
Validate(typ, val, path) ==
    CASE typ.validate = "warning" -> <<TestWarningDiagnostic(path)>>
      [] typ.validate = "error" -> <<TestErrorDiagnostic(path)>>
      [] typ.validate = "byValue" /\ StringOf(val) = "odd" ->
             <<TestWarningDiagnostic(path)>>
      [] typ.validate = "byValue" /\ StringOf(val) = "bad" ->
             <<TestWarningDiagnostic(path), TestErrorDiagnostic(path)>>
      [] OTHER -> <<>>

\* the attr.Value of Go type goType that Type typ made from raw value val;
\* ttv tells how its ToTerraformValue behaves: "ok" returns the payload,
\* "err" returns an error, "shape" returns a payload of another kind
AttrValue(goType, typ, val, ttv) ==
    [nil |-> FALSE, goType |-> goType, createdBy |-> typ.name, raw |-> val, ttv |-> ttv]

\* typ.ValueFromTerraform(ctx, val)
ValueFromTerraform(typ, val) ==
    IF typ.vft = "err" \/ val.ty # typ.tfType
    THEN [err |-> TRUE, val |-> Nil]
    ELSE [err |-> FALSE, val |-> AttrValue(typ.valType, typ, val, "ok")]

\* val.ToTerraformValue(ctx)
ToTerraformValue(val) ==
    CASE val.ttv = "err" -> [err |-> TRUE, payload |-> NilPayload]
      [] val.ttv = "shape" -> [err |-> FALSE, payload |-> NumberPayload]
      [] OTHER -> [err |-> FALSE, payload |-> PayloadOf(val.raw)]

\* tftypes.Value{}: the empty raw value
EmptyValue == [ty |-> [kind |-> "invalid", elem |-> "none"], st |-> "null", v |-> "nil"]

\* ValueToTerraform without the validation of the payload
ValueToTerraform_unvalidated(typ, val) ==
    LET t == ToTerraformValue(val)
    IN  IF t.err THEN [err |-> TRUE, from |-> "ToTerraformValue", val |-> EmptyValue]
        ELSE [err |-> FALSE, from |-> "none", val |-> NewValue(typ.tfType, t.payload)]

\* ValueToTerraform(ctx, val), typ being val.Type(ctx); from names the call
\* whose error is returned
ValueToTerraform(typ, val) ==
    LET t == ToTerraformValue(val)
    IN  IF t.err THEN [err |-> TRUE, from |-> "ToTerraformValue", val |-> EmptyValue]
        ELSE IF ~ValidateValue(typ.tfType, t.payload)
        THEN [err |-> TRUE, from |-> "ValidateValue", val |-> EmptyValue]
        ELSE [err |-> FALSE, from |-> "none", val |-> NewValue(typ.tfType, t.payload)]

(***************************************************************************)
(* The trace of a call: the calls it made on the Type and on the target.  *)
(***************************************************************************)
EvValidate(typ, val, path) ==
    [ev |-> "Validate", on |-> typ.name, val |-> val, path |-> path]

EvValueFromTerraform(typ, val) ==
    [ev |-> "ValueFromTerraform", on |-> typ.name, val |-> val]

\* a call of SetNull or SetUnknown on the receiver, with its flag
EvSetFlag(method, flag) == [ev |-> method, flag |-> flag]

\* a call of FromTerraform5Value on the receiver
EvFromTerraform5Value(val) == [ev |-> "FromTerraform5Value", val |-> val]

\* what a converter returns: the value, the diagnostics, and the trace
Return(ret, diags, log) ==
    [done |-> TRUE, panic |-> FALSE, ret |-> ret, diags |-> diags, log |-> log]

\* a converter that panics returns nothing
Panic(log) ==
    [done |-> TRUE, panic |-> TRUE, ret |-> Nil, diags |-> <<>>, log |-> log]

(***************************************************************************)
(* The capability-hook converters into a native value.  A target is a     *)
(* native value of a type with hook methods; hook tells how the method    *)
(* the converter looks up behaves: "ok" returns nil, "err" returns an     *)
(* error, "missing" means the type has no such method, "noresult" a      *)
(* method of that name that returns nothing (reading results[0] panics).  *)
(***************************************************************************)
\* pointerSafeZeroValue(ctx, target): a new zero value of the target's type
pointerSafeZeroValue(target) ==
    [goType |-> target.goType, hook |-> target.hook,
     null |-> FALSE, unknown |-> FALSE, value |-> "zero", calls |-> <<>>]

\* the receiver after its method SetNull(flag) returned nil
AfterSetNull(receiver, flag) ==
    [receiver EXCEPT !.null = flag,
                     !.calls = Append(@, EvSetFlag("SetNull", flag))]

\* the receiver after its method SetUnknown(flag) returned nil
AfterSetUnknown(receiver, flag) ==
    [receiver EXCEPT !.unknown = flag,
                     !.calls = Append(@, EvSetFlag("SetUnknown", flag))]

\* the receiver after its method FromTerraform5Value(val) returned nil
AfterFromTerraform5Value(receiver, val) ==
    [receiver EXCEPT !.value = StringOf(val),
                     !.calls = Append(@, EvFromTerraform5Value(val))]

NewUnknownable_flagFromNull(typ, val, target, path) ==
    LET receiver == pointerSafeZeroValue(target)
        flag     == IsNull(val)
        log      == <<EvSetFlag("SetUnknown", flag)>>
    IN  IF target.hook = "missing" THEN
            Return(target, <<NewAttributeErrorDiagnostic(path, "convert value")>>, <<>>)
        ELSE IF target.hook = "noresult" THEN Panic(log)
        ELSE IF target.hook = "err" THEN
            Return(target, <<NewAttributeErrorDiagnostic(path, "convert into a value")>>, log)
        ELSE Return(AfterSetUnknown(receiver, flag), <<>>, log)

NewUnknownable(typ, val, target, path) ==
    LET receiver == pointerSafeZeroValue(target)
        flag     == ~IsKnown(val)
        log      == <<EvSetFlag("SetUnknown", flag)>>
    IN  IF target.hook = "missing" THEN
            Return(target, <<NewAttributeErrorDiagnostic(path, "convert value")>>, <<>>)
        ELSE IF target.hook = "noresult" THEN Panic(log)
        ELSE IF target.hook = "err" THEN
            Return(target, <<NewAttributeErrorDiagnostic(path, "convert into a value")>>, log)
        ELSE Return(AfterSetUnknown(receiver, flag), <<>>, log)

\* NewNullable returning the receiver although its hook failed
NewNullable_receiverOnError(typ, val, target, path) ==
    LET receiver == pointerSafeZeroValue(target)
        flag     == IsNull(val)
        log      == <<EvSetFlag("SetNull", flag)>>
    IN  IF target.hook = "missing" THEN
            Return(target, <<NewAttributeErrorDiagnostic(path, "convert value")>>, <<>>)
        ELSE IF target.hook = "noresult" THEN Panic(log)
        ELSE IF target.hook = "err" THEN
            Return(receiver, <<NewAttributeErrorDiagnostic(path, "convert into a value")>>, log)
        ELSE Return(AfterSetNull(receiver, flag), <<>>, log)

NewNullable(typ, val, target, path) ==
    LET receiver == pointerSafeZeroValue(target)
        flag     == IsNull(val)
        log      == <<EvSetFlag("SetNull", flag)>>
    IN  IF target.hook = "missing" THEN
            Return(target, <<NewAttributeErrorDiagnostic(path, "convert value")>>, <<>>)
        ELSE IF target.hook = "noresult" THEN Panic(log)
        ELSE IF target.hook = "err" THEN
            Return(target, <<NewAttributeErrorDiagnostic(path, "convert into a value")>>, log)
        ELSE Return(AfterSetNull(receiver, flag), <<>>, log)

NewValueConverter(typ, val, target, path) ==
    LET receiver == pointerSafeZeroValue(target)
        log      == <<EvFromTerraform5Value(val)>>
    IN  IF target.hook = "missing" THEN
            Return(target, <<NewAttributeErrorDiagnostic(path, "convert into a value")>>, <<>>)
        ELSE IF target.hook = "noresult" THEN Panic(log)
        ELSE IF target.hook = "err" THEN
            Return(target, <<NewAttributeErrorDiagnostic(path, "convert into a value")>>, log)
        ELSE Return(AfterFromTerraform5Value(receiver, val), <<>>, log)

(***************************************************************************)
(* The converters from a native value with capability hooks.              *)
(***************************************************************************)
\* the block every converter runs on a raw value before it materializes it:
\*     if typeWithValidate, ok := typ.(attr.TypeWithValidate); ok {
\*         diags.Append(typeWithValidate.Validate(ctx, tfVal, path)...)
\*         if diags.HasError() { return ... }
\*     }
\* It yields the diagnostics and the trace after the block, and whether the
\* converter returns from inside it.
validateBlock_neverReturns(typ, tfVal, path, diags, log) ==
    IF HasValidate(typ)
    THEN [diags |-> DiagsAppend(diags, Validate(typ, tfVal, path)),
          log   |-> Append(log, EvValidate(typ, tfVal, path)),
          stop  |-> FALSE]
    ELSE [diags |-> diags, log |-> log, stop |-> FALSE]

validateBlock(typ, tfVal, path, diags, log) ==
    IF HasValidate(typ)
    THEN LET after == DiagsAppend(diags, Validate(typ, tfVal, path))
         IN  [diags |-> after,
              log   |-> Append(log, EvValidate(typ, tfVal, path)),
              stop  |-> HasError(after)]
    ELSE [diags |-> diags, log |-> log, stop |-> FALSE]

\* what the From converters do with a raw value tfVal they have built:
\*     the validate block (validateBlock), returning nil and the
\*         diagnostics from inside it;
\*     res, err := typ.ValueFromTerraform(ctx, tfVal)
\*     if err != nil {
\*         return nil, append(diags, valueFromTerraformErrorDiag(err, path))
\*     }
\*     return res, diags        (keepDiags)
\*     return res, nil          (~keepDiags)
validateAndConvert(typ, tfVal, path, keepDiags) ==
    LET b   == validateBlock(typ, tfVal, path, <<>>, <<>>)
        r   == ValueFromTerraform(typ, tfVal)
        log == Append(b.log, EvValueFromTerraform(typ, tfVal))
    IN  IF b.stop THEN Return(Nil, b.diags, b.log)
        ELSE IF r.err
        THEN Return(Nil, Append(b.diags, valueFromTerraformErrorDiag(path)), log)
        ELSE Return(r.val, IF keepDiags THEN b.diags ELSE <<>>, log)

\* val is an Unknownable: GetUnknown returns val.unknown, GetValue val.value.
\* Both branches end in "return res, nil".
FromUnknownable(typ, val, path) ==
    IF val.unknown THEN
        validateAndConvert(typ, NewValue(typ.tfType, UnknownPayload), path, FALSE)
    ELSE IF ~ValidateValue(typ.tfType, val.value) THEN
        Return(Nil, <<validateValueErrorDiag(path)>>, <<>>)
    ELSE
        validateAndConvert(typ, NewValue(typ.tfType, val.value), path, FALSE)

\* val is a Nullable: GetNull returns val.null, GetValue val.value.  The
\* null branch ends in "return res, nil", the other in "return res, diags".
FromNullable(typ, val, path) ==
    IF val.null THEN
        validateAndConvert(typ, NewValue(typ.tfType, NilPayload), path, FALSE)
    ELSE IF ~ValidateValue(typ.tfType, val.value) THEN
        Return(Nil, <<validateValueErrorDiag(path)>>, <<>>)
    ELSE
        validateAndConvert(typ, NewValue(typ.tfType, val.value), path, TRUE)

\* val is a tftypes.ValueCreator: ToTerraform5Value returns val.value, or an
\* error when val.t5 = "err".  It ends in "return res, diags".
FromValueCreator(typ, val, path) ==
    IF val.t5 = "err" THEN
        Return(Nil, <<toTerraform5ValueErrorDiag(path)>>, <<>>)
    ELSE IF ~ValidateValue(typ.tfType, val.value) THEN
        Return(Nil, <<validateValueErrorDiag(path)>>, <<>>)
    ELSE
        validateAndConvert(typ, NewValue(typ.tfType, val.value), path, TRUE)

(***************************************************************************)
(* The attr.Value converters.                                              *)
(***************************************************************************)
NewAttributeValue_storeAnyValue(typ, val, target, path) ==
    LET b   == validateBlock(typ, val, path, <<>>, <<>>)
        r   == ValueFromTerraform(typ, val)
        log == Append(b.log, EvValueFromTerraform(typ, val))
    IN  IF b.stop THEN Return(target, b.diags, b.log)
        ELSE IF r.err
        THEN Return(target, Append(b.diags, valueFromTerraformErrorDiag(path)), log)
        ELSE Return(r.val, b.diags, log)

\* target is a native value of Go type target.goType.  reflect.TypeOf(res)
\* is the Go type of the Value the Type made.
NewAttributeValue(typ, val, target, path) ==
    LET b   == validateBlock(typ, val, path, <<>>, <<>>)
        r   == ValueFromTerraform(typ, val)
        log == Append(b.log, EvValueFromTerraform(typ, val))
    IN  IF b.stop THEN Return(target, b.diags, b.log)
        ELSE IF r.err
        THEN Return(target, Append(b.diags, valueFromTerraformErrorDiag(path)), log)
        ELSE IF r.val.goType # target.goType
        THEN Return(target,
                    DiagsAppend(b.diags, <<DiagNewAttributeValueIntoWrongType(path)>>),
                    log)
        ELSE Return(r.val, b.diags, log)

\* val is an attr.Value.  tftypes.NewValue panics on a payload that does not
\* fit the type.
FromAttributeValue(typ, val, path) ==
    IF HasValidate(typ) THEN
        LET t == ToTerraformValue(val)
        IN  IF t.err THEN Return(val, <<toTerraformValueErrorDiag(path)>>, <<>>)
            ELSE IF ~ValidateValue(typ.tfType, t.payload) THEN Panic(<<>>)
            ELSE LET tfVal == NewValue(typ.tfType, t.payload)
                     diags == DiagsAppend(<<>>, Validate(typ, tfVal, path))
                     log   == <<EvValidate(typ, tfVal, path)>>
                 IN  Return(val, diags, log)
    ELSE Return(val, <<>>, <<>>)

(***************************************************************************)
(* The dispatchers the map converters hand each entry to.                 *)
(***************************************************************************)
EvBuildValue(typ, val, path) ==
    [ev |-> "BuildValue", on |-> typ.name, val |-> val, path |-> path]

EvFromValue(typ, path) == [ev |-> "FromValue", on |-> typ.name, path |-> path]

\* a native string
NativeString(s) == [nil |-> FALSE, goType |-> "string", s |-> s]

\* BuildValue(ctx, typ, val, target, opts, path): a target declared as an
\* attr.Value type goes to NewAttributeValue; a string target takes a known
\* string and is an incompatible type for anything else
BuildValue(typ, val, target, path) ==
    IF target.goType \in {"types.String", "testtypes.String"}
    THEN NewAttributeValue(typ, val, target, path)
    ELSE IF val.ty.kind = "string" /\ val.st = "known"
    THEN Return(NativeString(val.v), <<>>, <<>>)
    ELSE Return(target, <<DiagIntoIncompatibleType(path, "cannot reflect into a string")>>, <<>>)

\* FromValue(ctx, typ, val, path): the native value goes to the converter
\* of the first contract its type fulfils
FromValue(typ, val, path) ==
    CASE "goType" \in DOMAIN val -> FromAttributeValue(typ, val, path)
      [] "t5" \in DOMAIN val -> FromValueCreator(typ, val, path)
      [] "unknown" \in DOMAIN val -> FromUnknownable(typ, val, path)
      [] OTHER -> FromNullable(typ, val, path)

(***************************************************************************)
(* Map: a raw map value into a native map.  A native map target is        *)
(*   kind      the kind beneath its pointers: "map", "struct", ...         *)
(*   ref       "value", "pointer" (to such a value) or "nilpointer"        *)
(*   elemType  the Go type of its elements                                 *)
(*   entries   its contents                                                *)
(* Go ranges over a map in an order of its choosing: order is the         *)
(* sequence of keys the call visits.                                       *)
(***************************************************************************)
\* typ.(attr.TypeWithElementType): the Type has an ElementType method
HasElementType(typ) == "elem" \in DOMAIN typ

\* val.As(&values) for values of type map[string]tftypes.Value: an unknown
\* value cannot be read, a null map reads as the empty map
AsMap(val) ==
    CASE val.st = "unknown" -> [err |-> TRUE, values |-> <<>>]
      [] val.st = "null" -> [err |-> FALSE, values |-> <<>>]
      [] OTHER -> [err |-> FALSE, values |-> val.elems]

\* reflect.Zero(elemType): the empty string, or a Value holding the known
\* empty string (types.String{})
ZeroOf(goType) ==
    IF goType = "string" THEN NativeString("")
    ELSE AttrValue(goType, [name |-> "zero"], NewValue(TfString, StringPayload("")), "ok")

\* reflect.MakeMapWithSize(underlyingValue.Type(), n)
MakeMap(target) ==
    [kind |-> "map", ref |-> "value", elemType |-> target.elemType, entries |-> <<>>]

\* m.SetMapIndex(key, result)
SetMapIndex(m, key, result) == [m EXCEPT !.entries = (key :> result) @@ @]

\* the loop of Map over the keys of order from index i on
RECURSIVE mapLoop(_, _, _, _, _, _, _, _, _)
RECURSIVE mapEntry(_, _, _, _, _, _, _, _, _, _)

\* the body of the loop for the key order[i], from the return of BuildValue
\* (r) on
mapEntry(elemAttrType, values, target, path, order, i, m, diags, log, r) ==
    LET key      == order[i]
        elemPath == WithElementKeyString(path, key)
        diags1   == DiagsAppend(diags, r.diags)
        log1     == (log \o <<EvBuildValue(elemAttrType, values[key], elemPath)>>) \o r.log
    IN  IF r.panic THEN Panic(log1)
        ELSE IF HasError(diags1) THEN Return(target, diags1, log1)
        ELSE mapLoop(elemAttrType, values, target, path, order, i + 1,
                     SetMapIndex(m, key, r.ret), diags1, log1)

mapLoop(elemAttrType, values, target, path, order, i, m, diags, log) ==
    IF i > Len(order) THEN Return(m, diags, log)
    ELSE mapEntry(elemAttrType, values, target, path, order, i, m, diags, log,
                  BuildValue(elemAttrType, values[order[i]], ZeroOf(target.elemType),
                             WithElementKeyString(path, order[i])))

\* a reflect.Value handed over as an interface{}: what reflect.ValueOf sees
\* is a value of the struct type reflect.Value, whatever v describes
BoxedReflectValue(v) == [kind |-> "struct", ref |-> "value", holds |-> v]

\* target is a reflect.Value, and it is handed to trueReflectValue as it is
Map(typ, val, target, path, order) ==
    LET underlyingValue == trueReflectValue(BoxedReflectValue(target))
        as == AsMap(val)
    IN  IF underlyingValue.panic THEN Panic(<<>>)
        ELSE IF underlyingValue.kind # "map" THEN
            Return(target, <<DiagIntoIncompatibleType(path, "expected a map type")>>, <<>>)
        ELSE IF val.ty.kind # "map" THEN
            Return(target, <<DiagIntoIncompatibleType(path, "must be a map")>>, <<>>)
        ELSE IF ~HasElementType(typ) THEN
            Return(target,
                   <<DiagIntoIncompatibleType(path, "must be an attr.TypeWithElementType")>>,
                   <<>>)
        ELSE IF as.err THEN
            Return(target, <<DiagIntoIncompatibleType(path, "As")>>, <<>>)
        ELSE mapLoop(typ.elem, as.values, target, path, order, 1,
                     MakeMap(target), <<>>, <<>>)

(***************************************************************************)
(* FromMap: a native map into an attr.Value.  A native map source is      *)
(*   kind     its kind: "map", or "struct", "slice" for what is no map      *)
(*   isNil    whether the map is nil                                       *)
(*   keyKind  the kind of its key type: "string", "int", ...               *)
(*   entries  its contents, keyed by the keys' text                        *)
(* order is the sequence in which val.MapKeys() lists the keys.            *)
(***************************************************************************)
\* the loop of FromMap over the keys of order from index i on: either the
\* call returns from inside the loop (returned, with what it returns in
\* out), or the loop ends with the raw elements, diagnostics and trace
Returned(out) ==
    [returned |-> TRUE, out |-> out, tfElems |-> <<>>, diags |-> <<>>, log |-> <<>>]

RECURSIVE fromMapLoop(_, _, _, _, _, _, _, _)
RECURSIVE fromMapEntry(_, _, _, _, _, _, _, _, _)

\* the body of the loop for the key order[i], from the return of FromValue
\* (r) on
fromMapEntry(typ, val, path, order, i, tfElems, diags, log, r) ==
    LET key        == order[i]
        elemType   == typ.elem
        elemPath   == WithElementKeyString(path, key)
        diags1     == DiagsAppend(diags, r.diags)
        log1       == (log \o <<EvFromValue(elemType, elemPath)>>) \o r.log
        t          == ToTerraformValue(r.ret)
        tfElemType == elemType.tfType
        tfElemVal  == NewValue(tfElemType, t.payload)
        b          == validateBlock(typ, tfElemVal, elemPath, diags1, log1)
    IN  IF r.panic THEN Returned(Panic(log1))
        ELSE IF HasError(diags1) THEN Returned(Return(Nil, diags1, log1))
        ELSE IF r.ret.nil THEN Returned(Panic(log1))
        ELSE IF t.err THEN
            Returned(Return(Nil, Append(diags1, toTerraformValueErrorDiag(path)), log1))
        ELSE IF ~ValidateValue(tfElemType, t.payload) THEN
            Returned(Return(Nil, Append(diags1, validateValueErrorDiag(path)), log1))
        ELSE IF b.stop THEN Returned(Return(Nil, b.diags, b.log))
        ELSE fromMapLoop(typ, val, path, order, i + 1,
                         (key :> tfElemVal) @@ tfElems, b.diags, b.log)

\* the loop of FromMap without the test of the key's kind
fromMapLoop_noKeyCheck(typ, val, path, order, i, tfElems, diags, log) ==
    IF i > Len(order) THEN
        [returned |-> FALSE, out |-> Return(Nil, <<>>, <<>>),
         tfElems |-> tfElems, diags |-> diags, log |-> log]
    ELSE fromMapEntry(typ, val, path, order, i, tfElems, diags, log,
                      FromValue(typ.elem, val.entries[order[i]],
                                WithElementKeyString(path, order[i])))

fromMapLoop(typ, val, path, order, i, tfElems, diags, log) ==
    IF i > Len(order) THEN
        [returned |-> FALSE, out |-> Return(Nil, <<>>, <<>>),
         tfElems |-> tfElems, diags |-> diags, log |-> log]
    ELSE IF val.keyKind # "string" THEN
        Returned(Return(Nil,
                        Append(diags, NewAttributeErrorDiagnostic(path, "convert into a Terraform value")),
                        log))
    ELSE fromMapEntry(typ, val, path, order, i, tfElems, diags, log,
                      FromValue(typ.elem, val.entries[order[i]],
                                WithElementKeyString(path, order[i])))

\* FromMap after its loop ended with l
fromMapAssemble(typ, path, l) ==
    LET tfType  == typ.tfType
        payload == MapPayload(l.tfElems)
        tfVal   == NewValue(tfType, payload)
        b       == validateBlock(typ, tfVal, path, l.diags, l.log)
        r       == ValueFromTerraform(typ, tfVal)
        log     == Append(b.log, EvValueFromTerraform(typ, tfVal))
    IN  IF l.returned THEN l.out
        ELSE IF ~ValidateValue(tfType, payload) THEN
            Return(Nil, Append(l.diags, validateValueErrorDiag(path)), l.log)
        ELSE IF b.stop THEN Return(Nil, b.diags, b.log)
        ELSE IF r.err THEN
            Return(Nil,
                   Append(b.diags, NewAttributeErrorDiagnostic(path, "convert to map value")),
                   log)
        ELSE Return(r.val, b.diags, log)

\* the kinds val.IsNil() can be asked of; it panics on every other kind
NillableKinds == {"chan", "func", "interface", "map", "pointer", "slice"}

\* FromMap on a nil map
fromMapNil(typ, path) ==
    LET tfVal == NewValue(typ.tfType, NilPayload)
        b     == validateBlock(typ, tfVal, path, <<>>, <<>>)
        r     == ValueFromTerraform(typ, tfVal)
        log   == Append(b.log, EvValueFromTerraform(typ, tfVal))
    IN  IF b.stop THEN Return(Nil, b.diags, b.log)
        ELSE IF r.err THEN
            Return(Nil,
                   Append(b.diags, NewAttributeErrorDiagnostic(path, "convert from map value")),
                   log)
        ELSE Return(r.val, b.diags, log)

FromMap(typ, val, path, order) ==
    IF val.kind \notin NillableKinds THEN Panic(<<>>)
    ELSE IF val.isNil THEN fromMapNil(typ, path)
    ELSE IF val.kind # "map" THEN Panic(<<>>)
    ELSE fromMapAssemble(typ, path,
                         fromMapLoop(typ, val, path, order, 1, <<>>, <<>>, <<>>))

(***************************************************************************)
(* The calls of getStructTags the model draws.                             *)
(***************************************************************************)
\* the tags a field may declare: none, the exclusion marker, well-formed
\* names, and names with an uppercase letter, a leading digit, a leading
\* underscore or a dash inside
Tags ==
    { <<>>, ExcludeTag, <<"a">>, <<"n", "a", "m", "e">>, <<"z", "_", "0", "9">>,
      <<"a", "B">>, <<"1", "a">>, <<"_">> }

Fields == [exported : {TRUE}, tag : Tags] \cup [exported : {FALSE}, tag : {<<"a">>, <<"1", "a">>}]

SeqsUpTo(S, n) == UNION { [1..k -> S] : k \in 0..n }

StructTypes ==
    [kind : {"struct"}, ref : {"value"}, fields : SeqsUpTo(Fields, MaxFields)]
        \cup {[kind |-> "string", ref |-> "value", fields |-> <<>>]}

\* what else a caller may hand over: a pointer to a structure, a nil pointer
\* to one, and the nil interface
OtherInputs ==
    [kind : {"struct"}, ref : {"pointer", "nilpointer"}, fields : SeqsUpTo(Fields, 1)]
        \cup {[kind |-> "invalid", ref |-> "nil", fields |-> <<>>]}

NoRes == [done |-> FALSE]

Ready(op) == pc = "ready" /\ call.op = op

Finish(r) == pc' = "done" /\ res' = r /\ UNCHANGED call

InitTags ==
    /\ pc = "ready"
    /\ res = NoRes
    /\ \E in \in StructTypes \cup OtherInputs, path \in Paths :
           call = [op |-> "getStructTags", in |-> in, path |-> path]

CallGetStructTags ==
    Ready("getStructTags") /\ Finish(getStructTags(call.in, call.path))

NextTags == CallGetStructTags

SpecTags == InitTags /\ [][NextTags]_vars

(***************************************************************************)
(* The calls of the leaf converters the model draws.                       *)
(***************************************************************************)
ValidateModes == {"none", "warning", "error", "byValue"}

GoValueTypes == {"types.String", "testtypes.String"}

\* the string Types: every behaviour of the hooks
StringTypes ==
    [name : {"StringType"}, tfType : {TfString}, validate : ValidateModes,
     vft : {"ok", "err"}, valType : GoValueTypes]

\* a Type whose methods all succeed and that has no Validate method
PlainStringType ==
    [name |-> "StringType", tfType |-> TfString, validate |-> "none",
     vft |-> "ok", valType |-> "types.String"]

Strings == {"good", "odd", "bad"}

\* the raw values handed to a leaf converter: strings, null, unknown, and a
\* number where a string is declared
StringRaws == { NewValue(TfString, StringPayload(d)) : d \in Strings }
                  \cup { NewValue(TfString, NilPayload), NewValue(TfString, UnknownPayload) }

LeafRaws == StringRaws \cup { NewValue(TfNumber, NumberPayload) }

\* the Go values a hook's GetValue or ToTerraform5Value may return
LeafPayloads == { StringPayload(d) : d \in Strings } \cup { NilPayload, NumberPayload }

\* targets with capability hooks, holding earlier contents
HookTargets ==
    [goType : {"hooked"}, hook : {"ok", "err", "missing", "noresult"},
     null : BOOLEAN, unknown : BOOLEAN, value : {"prior"}, calls : {<<>>}]

\* targets declared as an attr.Value type, holding an earlier Value
AttrTargets ==
    { AttrValue(t, [name |-> "prior"], NewValue(TfString, StringPayload("prior")), "ok") :
          t \in GoValueTypes }

\* native attr.Values handed to FromAttributeValue
NativeAttrValues ==
    { AttrValue("types.String", [name |-> "native"], raw, ttv) :
          raw \in StringRaws, ttv \in {"ok", "err", "shape"} }

Nullables == [null : BOOLEAN, value : LeafPayloads]

Unknownables == [unknown : BOOLEAN, value : LeafPayloads]

ValueCreators == [t5 : {"ok", "err"}, value : LeafPayloads]

InitLeaf ==
    /\ pc = "ready"
    /\ res = NoRes
    /\ \E path \in Paths :
        \/ \E op \in {"NewNullable", "NewUnknownable", "NewValueConverter"},
              val \in LeafRaws, target \in HookTargets :
               call = [op |-> op, typ |-> PlainStringType, val |-> val,
                       target |-> target, path |-> path]
        \/ \E typ \in StringTypes, val \in LeafRaws, target \in AttrTargets :
               call = [op |-> "NewAttributeValue", typ |-> typ, val |-> val,
                       target |-> target, path |-> path]
        \/ \E typ \in StringTypes, val \in Nullables :
               call = [op |-> "FromNullable", typ |-> typ, val |-> val, path |-> path]
        \/ \E typ \in StringTypes, val \in Unknownables :
               call = [op |-> "FromUnknownable", typ |-> typ, val |-> val, path |-> path]
        \/ \E typ \in StringTypes, val \in ValueCreators :
               call = [op |-> "FromValueCreator", typ |-> typ, val |-> val, path |-> path]
        \/ \E typ \in StringTypes, val \in NativeAttrValues :
               call = [op |-> "FromAttributeValue", typ |-> typ, val |-> val, path |-> path]

CallNewNullable ==
    Ready("NewNullable") /\ Finish(NewNullable(call.typ, call.val, call.target, call.path))

CallNewUnknownable ==
    Ready("NewUnknownable") /\ Finish(NewUnknownable(call.typ, call.val, call.target, call.path))

CallNewValueConverter ==
    Ready("NewValueConverter") /\ Finish(NewValueConverter(call.typ, call.val, call.target, call.path))

CallNewAttributeValue ==
    Ready("NewAttributeValue") /\ Finish(NewAttributeValue(call.typ, call.val, call.target, call.path))

CallFromNullable ==
    Ready("FromNullable") /\ Finish(FromNullable(call.typ, call.val, call.path))

CallFromUnknownable ==
    Ready("FromUnknownable") /\ Finish(FromUnknownable(call.typ, call.val, call.path))

CallFromValueCreator ==
    Ready("FromValueCreator") /\ Finish(FromValueCreator(call.typ, call.val, call.path))

CallFromAttributeValue ==
    Ready("FromAttributeValue") /\ Finish(FromAttributeValue(call.typ, call.val, call.path))

NextLeaf ==
    \/ CallNewNullable
    \/ CallNewUnknownable
    \/ CallNewValueConverter
    \/ CallNewAttributeValue
    \/ CallFromNullable
    \/ CallFromUnknownable
    \/ CallFromValueCreator
    \/ CallFromAttributeValue

SpecLeaf == InitLeaf /\ [][NextLeaf]_vars

(***************************************************************************)
(* The calls of the map converters the model draws.                       *)
(***************************************************************************)
KeyNames == <<"a", "b", "c", "d">>

Keys == { KeyNames[i] : i \in 1..MaxEntries }

\* every order in which the keys of S can be visited
Orders(S) ==
    { o \in [1..Cardinality(S) -> S] : \A i, j \in 1..Cardinality(S) : o[i] = o[j] => i = j }

\* every map with keys among Keys and elements among E
MapsOver(E) == UNION { [S -> E] : S \in SUBSET Keys }

MapType(tfElemKind, validate, vft, elem) ==
    [name |-> "MapType", tfType |-> TfMap(tfElemKind), validate |-> validate,
     vft |-> vft, valType |-> "types.Map", elem |-> elem]

\* Map: a map Type over every element Type, and a Type without elements
IntoElemTypes ==
    [name : {"StringType"}, tfType : {TfString}, validate : ValidateModes,
     vft : {"ok", "err"}, valType : {"types.String"}]

IntoTypes == { MapType("string", "none", "ok", e) : e \in IntoElemTypes } \cup {PlainStringType}

KnownStrings == { NewValue(TfString, StringPayload(d)) : d \in Strings }

\* the raw values handed to Map: maps of strings, the null and the unknown
\* map, and a string
IntoRaws ==
    { NewValue(TfMap("string"), MapPayload(m)) : m \in MapsOver(KnownStrings) }
        \cup { NewValue(TfMap("string"), NilPayload), NewValue(TfMap("string"), UnknownPayload),
               NewValue(TfString, StringPayload("good")) }

\* what the targets hold before the call
PriorEntries(goType) == ("p" :> ZeroOf(goType))

MapTarget(kind, ref, goType) ==
    [kind |-> kind, ref |-> ref, elemType |-> goType, entries |-> PriorEntries(goType)]

IntoTargets ==
    { MapTarget("map", "value", t) : t \in {"types.String", "testtypes.String", "string"} }
        \cup { MapTarget("map", "pointer", "types.String"),
               MapTarget("map", "nilpointer", "types.String"),
               MapTarget("struct", "value", "types.String") }

\* FromMap: map Types with every behaviour of their own hooks, over an
\* element Type with or without validation, declaring the element's raw
\* type or another one
FromElemTypes ==
    [name : {"StringType"}, tfType : {TfString}, validate : {"none", "byValue"},
     vft : {"ok"}, valType : {"types.String"}]

FromTypes ==
    { MapType(k, v, f, e) :
          k \in {"string", "number"}, v \in ValidateModes, f \in {"ok", "err"},
          e \in FromElemTypes }

\* the elements of the native maps: attr.Values holding each string, and
\* Values whose ToTerraformValue fails or returns another kind
FromElems ==
    { AttrValue("types.String", [name |-> "native"], raw, "ok") : raw \in KnownStrings }
        \cup { AttrValue("types.String", [name |-> "native"],
                         NewValue(TfString, StringPayload("good")), ttv) :
                   ttv \in {"err", "shape"} }

NativeMap(isNil, keyKind, entries) ==
    [kind |-> "map", isNil |-> isNil, keyKind |-> keyKind, entries |-> entries]

\* native values that are no maps: a structure, a slice and a nil slice
NativeOthers ==
    { [kind |-> "struct", isNil |-> FALSE, keyKind |-> "none", entries |-> <<>>],
      [kind |-> "slice", isNil |-> FALSE, keyKind |-> "none", entries |-> <<>>],
      [kind |-> "slice", isNil |-> TRUE, keyKind |-> "none", entries |-> <<>>] }

FromMaps ==
    { NativeMap(FALSE, "string", m) : m \in MapsOver(FromElems) }
        \cup { NativeMap(FALSE, "int", m) :
                   m \in MapsOver({AttrValue("types.String", [name |-> "native"],
                                             NewValue(TfString, StringPayload("good")), "ok")}) }
        \cup { NativeMap(TRUE, "string", <<>>) }
        \cup NativeOthers

InitMap ==
    /\ pc = "ready"
    /\ res = NoRes
    /\ \E path \in Paths :
        \/ \E typ \in IntoTypes, val \in IntoRaws, target \in IntoTargets :
               call = [op |-> "Map", typ |-> typ, val |-> val, target |-> target,
                       path |-> path]
        \/ \E typ \in FromTypes, val \in FromMaps :
               call = [op |-> "FromMap", typ |-> typ, val |-> val, path |-> path]

\* the keys a raw map value holds
RawKeys(val) ==
    IF val.ty.kind = "map" /\ val.st = "known" THEN DOMAIN val.elems ELSE {}

CallMap ==
    /\ Ready("Map")
    /\ \E order \in Orders(RawKeys(call.val)) :
           Finish(Map(call.typ, call.val, call.target, call.path, order))

CallFromMap ==
    /\ Ready("FromMap")
    /\ \E order \in Orders(DOMAIN call.val.entries) :
           Finish(FromMap(call.typ, call.val, call.path, order))

NextMap == CallMap \/ CallFromMap

SpecMap == InitMap /\ [][NextMap]_vars

(***************************************************************************)
(* The calls of ValueToTerraform the model draws.                          *)
(***************************************************************************)
\* the Types of the Values: a string, a number and a map of strings
ValueOwnTypes ==
    { PlainStringType, [PlainStringType EXCEPT !.tfType = TfNumber],
      MapType("string", "none", "ok", PlainStringType) }

\* what the Values hold: a string, null, unknown, a number, a map of strings
HeldRaws ==
    LeafRaws \cup { NewValue(TfMap("string"), MapPayload(m)) : m \in MapsOver(KnownStrings) }

InitValue ==
    /\ pc = "ready"
    /\ res = NoRes
    /\ \E typ \in ValueOwnTypes, raw \in HeldRaws, ttv \in {"ok", "err", "shape"} :
           call = [op |-> "ValueToTerraform", typ |-> typ,
                   val |-> AttrValue(typ.valType, typ, raw, ttv)]

CallValueToTerraform ==
    /\ Ready("ValueToTerraform")
    /\ pc' = "done"
    /\ res' = ValueToTerraform(call.typ, call.val)
    /\ UNCHANGED call

NextValue == CallValueToTerraform

SpecValue == InitValue /\ [][NextValue]_vars

(***************************************************************************)
(* A native map taken through FromMap and, when that gave a Value, its    *)
(* raw value taken through Map into a target of the native map's type.    *)
(***************************************************************************)
\* the map Types: well-formed ones, and ones whose hooks fail or whose raw
\* type does not fit the elements
RoundTripTypes ==
    { MapType(k, v, f, e) :
          k \in {"string", "number"}, v \in {"none", "byValue"}, f \in {"ok", "err"},
          e \in { t \in FromElemTypes : t.validate = "byValue" } }
        \cup { MapType("string", "warning", "ok", PlainStringType) }

\* the elements: Values holding a string, null or unknown, and a Value
\* whose ToTerraformValue fails
RoundTripElems ==
    { AttrValue("types.String", [name |-> "native"], raw, "ok") :
          raw \in { NewValue(TfString, StringPayload("good")),
                    NewValue(TfString, StringPayload("bad")),
                    NewValue(TfString, NilPayload),
                    NewValue(TfString, UnknownPayload) } }
        \cup { AttrValue("types.String", [name |-> "native"],
                         NewValue(TfString, StringPayload("good")), "err") }

InitRoundTrip ==
    /\ pc = "ready"
    /\ res = NoRes
    /\ \E typ \in RoundTripTypes, m \in MapsOver(RoundTripElems), path \in Paths :
           call = [op |-> "RoundTrip", typ |-> typ,
                   val |-> NativeMap(FALSE, "string", m), path |-> path]

\* FromMap(typ, m)
RoundTripFromMap ==
    /\ Ready("RoundTrip")
    /\ \E order \in Orders(DOMAIN call.val.entries) :
           /\ pc' = "converted"
           /\ res' = FromMap(call.typ, call.val, call.path, order)
           /\ UNCHANGED call

\* Map(typ, raw(v), target of m's type), for the Value v FromMap returned
RoundTripMap ==
    /\ pc = "converted"
    /\ call.op = "RoundTrip"
    /\ ~res.panic
    /\ ~res.ret.nil
    /\ ~ValueToTerraform(call.typ, res.ret).err
    /\ \E order \in Orders(RawKeys(ValueToTerraform(call.typ, res.ret).val)) :
           /\ pc' = "done"
           /\ res' = [from |-> res,
                      into |-> Map(call.typ, ValueToTerraform(call.typ, res.ret).val,
                                   MapTarget("map", "value", "types.String"),
                                   call.path, order)]
           /\ UNCHANGED call

NextRoundTrip == RoundTripFromMap \/ RoundTripMap

SpecRoundTrip == InitRoundTrip /\ [][NextRoundTrip]_vars

(***************************************************************************)
(* Map and FromMap under a context that gets cancelled.  Both take ctx    *)
(* and hand it on to every call they make; neither reads it.  The context *)
(* of a call is described by after: the number of entries converted when  *)
(* it is cancelled (0: it is cancelled when the call is entered).         *)
(***************************************************************************)
Contexts == [after : 0..MaxEntries]

InitCancel ==
    /\ pc = "ready"
    /\ res = NoRes
    /\ \E path \in Paths, ctx \in Contexts :
        \/ \E e \in { t \in IntoElemTypes : t.vft = "ok" /\ t.validate \in {"none", "byValue"} },
              val \in IntoRaws :
               call = [op |-> "Map", typ |-> MapType("string", "none", "ok", e),
                       val |-> val, target |-> MapTarget("map", "value", "types.String"),
                       path |-> path, ctx |-> ctx]
        \/ \E typ \in { t \in FromTypes : t.vft = "ok" /\ t.tfType.elem = "string" },
              val \in { m \in FromMaps : m.kind = "map" /\ m.keyKind = "string" } :
               call = [op |-> "FromMap", typ |-> typ, val |-> val, path |-> path,
                       ctx |-> ctx]

SpecCancel == InitCancel /\ [][NextMap]_vars

(***************************************************************************)
(* The whole model: one call of any converter.                            *)
(***************************************************************************)
Init == InitTags \/ InitLeaf \/ InitMap \/ InitValue \/ InitRoundTrip \/ InitCancel

Next == NextTags \/ NextLeaf \/ NextMap \/ NextValue \/ NextRoundTrip

Spec == Init /\ [][Next]_vars

(***************************************************************************)
(* Claims about getStructTags.                                             *)
(***************************************************************************)
TagsDone ==
    pc = "done" /\ call.op = "getStructTags" /\ call.in.kind = "struct" /\ ~res.panic

\* the tags of Tags that match ^[a-z][a-z0-9_]*$, listed one by one
WellFormedTags == { <<"a">>, <<"n", "a", "m", "e">>, <<"z", "_", "0", "9">> }

\* field i (from 1) takes part in the binding: exported and not excluded
Bound(fields, i) == fields[i].exported /\ fields[i].tag # ExcludeTag

MissingTag(fields, i) == Bound(fields, i) /\ fields[i].tag = <<>>

\* field i has a malformed tag, or the tag of an earlier bound field
BadTag(fields, i) ==
    /\ Bound(fields, i)
    /\ fields[i].tag # <<>>
    /\ \/ fields[i].tag \notin WellFormedTags
       \/ \E j \in 1..(i - 1) : Bound(fields, j) /\ fields[j].tag = fields[i].tag

\* field i is the first field the structure is rejected for
FirstRejected(fields, i) ==
    /\ MissingTag(fields, i) \/ BadTag(fields, i)
    /\ \A j \in 1..(i - 1) : ~(MissingTag(fields, j) \/ BadTag(fields, j))

\* C4: getStructTags returns an error and no tag map for every structure
\* with an exported, non-excluded field whose tag does not match
\* ^[a-z][a-z0-9_]*$ or repeats the tag of an earlier bound field; when the
\* structure is rejected for such a field (it is the first field at fault),
\* the error's path is the caller's path extended by that tag as an
\* attribute name. The call reads the structure type and the path only.
C4_TagValidation ==
    TagsDone =>
        LET fields == call.in.fields
        IN  /\ (\E i \in 1..Len(fields) : BadTag(fields, i))
                   => (res.tags.nil /\ ~res.err.nil)
            /\ \A i \in 1..Len(fields) :
                   (FirstRejected(fields, i) /\ BadTag(fields, i))
                       => /\ ~res.err.nil
                          /\ res.err.path = call.path \o << <<"AttributeName", fields[i].tag>> >>

\* C4 witness: a structure rejected for a duplicate tag on its third field,
\* below a non-empty caller path
C4_Witness ==
    /\ TagsDone
    /\ Len(call.in.fields) >= 3
    /\ FirstRejected(call.in.fields, 3)
    /\ call.in.fields[3].tag \in WellFormedTags
    /\ call.path # <<>>
    /\ ~res.err.nil
    /\ res.err.path = call.path \o << <<"AttributeName", call.in.fields[3].tag>> >>

\* C5: a structure rejected for an exported field with an empty tag gets an
\* error at the caller's path, unextended; unexported fields and fields
\* tagged "-" never cause a rejection; and a successful call returns exactly
\* one entry tag -> field index (from 0) per exported non-excluded field.
C5_TagMap ==
    TagsDone =>
        LET fields == call.in.fields
            bound  == { i \in 1..Len(fields) : Bound(fields, i) }
        IN  /\ \A i \in 1..Len(fields) :
                   (FirstRejected(fields, i) /\ MissingTag(fields, i))
                       => res.tags.nil /\ ~res.err.nil /\ res.err.path = call.path
            /\ res.err.nil <=>
                   \A i \in bound : ~MissingTag(fields, i) /\ ~BadTag(fields, i)
            /\ res.err.nil =>
                   /\ ~res.tags.nil
                   /\ DOMAIN res.tags.m = { fields[i].tag : i \in bound }
                   /\ \A i \in bound : res.tags.m[fields[i].tag] = i - 1
                   /\ Cardinality(DOMAIN res.tags.m) = Cardinality(bound)

\* C5 witness: a successful call on a structure with two bound fields and a
\* skipped field whose tag would be rejected
C5_Witness ==
    /\ TagsDone
    /\ res.err.nil
    /\ Cardinality(DOMAIN res.tags.m) = 2
    /\ \E i \in 1..Len(call.in.fields) :
           /\ ~Bound(call.in.fields, i)
           /\ call.in.fields[i].tag \notin WellFormedTags \cup {ExcludeTag}

(***************************************************************************)
(* Claims about the leaf converters.                                       *)
(***************************************************************************)
Done(op) == pc = "done" /\ call.op = op

\* the Type a traced call was made on: the Type of the call or its element
\* Type
TypeNamed(name) == IF call.typ.name = name THEN call.typ ELSE call.typ.elem

\* the diagnostics the Validate calls of a trace returned, in order
RECURSIVE EmittedByValidate(_)
EmittedByValidate(log) ==
    IF log = <<>> THEN <<>>
    ELSE LET e == Head(log)
         IN  (IF e.ev = "Validate" THEN Validate(TypeNamed(e.on), e.val, e.path) ELSE <<>>)
                 \o EmittedByValidate(Tail(log))

ErrorsOf(diags) == SelectSeq(diags, LAMBDA d : d.severity = "error")

\* C8: NewAttributeValue returns the Value the Type's ValueFromTerraform
\* produced only when its Go type is the target's declared type; when the
\* Type produced a Value of another Go type the call returns the target as
\* it was, with exactly one error diagnostic, a
\* DiagNewAttributeValueIntoWrongType at the path of the call.
C8_ExactValueType ==
    Done("NewAttributeValue") =>
        LET produced ==
                /\ \E j \in 1..Len(res.log) : res.log[j].ev = "ValueFromTerraform"
                /\ call.typ.vft = "ok"
                /\ call.val.ty = call.typ.tfType
        IN  /\ res.ret # call.target =>
                /\ produced
                /\ call.typ.valType = call.target.goType
                /\ res.ret.goType = call.target.goType
                /\ res.ret.raw = call.val
            /\ (produced /\ call.typ.valType # call.target.goType) =>
                /\ res.ret = call.target
                /\ Len(ErrorsOf(res.diags)) = 1
                /\ ErrorsOf(res.diags)[1].kind = "DiagNewAttributeValueIntoWrongType"
                /\ ErrorsOf(res.diags)[1].path = call.path

\* C8 witness: after a validation warning the Type produces a Value of
\* another Go type than the target's
C8_Witness ==
    /\ Done("NewAttributeValue")
    /\ call.typ.valType # call.target.goType
    /\ call.path # <<>>
    /\ res.ret = call.target
    /\ Len(res.diags) = 2
    /\ res.diags[1].severity = "warning"
    /\ res.diags[2].kind = "DiagNewAttributeValueIntoWrongType"

\* C9: NewNullable calls SetNull(val is null) and nothing else on a new zero
\* receiver, NewUnknownable calls SetUnknown(val is unknown) and nothing
\* else; when the hook succeeds the receiver is returned carrying that one
\* call; an unknown value never sets the null flag and a null value never
\* sets the unknown flag.
C9_NullUnknownApart ==
    /\ Done("NewNullable") =>
        /\ \A j \in 1..Len(res.log) :
               res.log[j] = [ev |-> "SetNull", flag |-> (call.val.st = "null")]
        /\ call.target.hook # "missing" => Len(res.log) = 1
        /\ call.target.hook = "ok" =>
               /\ res.ret.calls = res.log
               /\ res.ret.null = (call.val.st = "null")
               /\ res.ret.unknown = FALSE
               /\ res.ret.value = "zero"
    /\ Done("NewUnknownable") =>
        /\ \A j \in 1..Len(res.log) :
               res.log[j] = [ev |-> "SetUnknown", flag |-> (call.val.st = "unknown")]
        /\ call.target.hook # "missing" => Len(res.log) = 1
        /\ call.target.hook = "ok" =>
               /\ res.ret.calls = res.log
               /\ res.ret.unknown = (call.val.st = "unknown")
               /\ res.ret.null = FALSE
               /\ res.ret.value = "zero"

\* C9 witness: NewUnknownable on an unknown value, for a target that was
\* null before the call
C9_Witness ==
    /\ Done("NewUnknownable")
    /\ call.val.st = "unknown"
    /\ call.target.null
    /\ ~call.target.unknown
    /\ res.ret.unknown
    /\ ~res.ret.null
    /\ res.ret.calls = <<[ev |-> "SetUnknown", flag |-> TRUE]>>

(***************************************************************************)
(* Claims about validation, over the leaf and the map converters.         *)
(***************************************************************************)
\* the converters that materialize a Value through ValueFromTerraform
Materializers ==
    {"NewAttributeValue", "FromMap", "FromNullable", "FromUnknownable", "FromValueCreator"}

\* the traced Validate calls that returned an error
FailedValidations(log) ==
    { i \in 1..Len(log) :
          /\ log[i].ev = "Validate"
          /\ HasError(Validate(TypeNamed(log[i].on), log[i].val, log[i].path)) }

\* C2: warnings never stop a conversion and are never lost: when a call of
\* NewAttributeValue, FromAttributeValue, FromNullable, FromUnknownable,
\* FromValueCreator or FromMap ends without any error, it returns a value
\* and its Diagnostics are exactly the warnings its Validate calls returned,
\* in the order they were returned.
C2_WarningsKept ==
    (/\ pc = "done"
     /\ call.op \in Materializers \cup {"FromAttributeValue"}
     /\ ~res.panic
     /\ ~HasError(res.diags)
     /\ ~HasError(EmittedByValidate(res.log)))
        => /\ IF call.op = "NewAttributeValue"
              THEN res.ret # call.target
              ELSE ~res.ret.nil
           /\ res.diags = EmittedByValidate(res.log)

\* C3: in NewAttributeValue, FromMap, FromNullable, FromUnknownable and
\* FromValueCreator, ValueFromTerraform is called on a raw value only after
\* the Type's Validate, if it has one, was called on that raw value at the
\* path of the call; and when a Validate call returns an error,
\* ValueFromTerraform is not called on that raw value, no Value is returned
\* (the target comes back from NewAttributeValue, nil from the others), and
\* the Diagnostics are exactly what the Validate calls returned.
C3_ValidateBeforeConvert ==
    (pc = "done" /\ call.op \in Materializers /\ ~res.panic) =>
        LET log == res.log
        IN  /\ \A j \in 1..Len(log) :
                   (log[j].ev = "ValueFromTerraform" /\ HasValidate(TypeNamed(log[j].on)))
                       => \E i \in 1..(j - 1) :
                              /\ log[i].ev = "Validate"
                              /\ log[i].on = log[j].on
                              /\ log[i].val = log[j].val
                              /\ log[i].path = call.path
            /\ FailedValidations(log) # {} =>
                   /\ \A i \in FailedValidations(log) :
                          ~\E j \in 1..Len(log) :
                               /\ log[j].ev = "ValueFromTerraform"
                               /\ log[j].on = log[i].on
                               /\ log[j].val = log[i].val
                   /\ ~\E j \in 1..Len(log) : log[j].ev = "ValueFromTerraform"
                   /\ IF call.op = "NewAttributeValue"
                      THEN res.ret = call.target
                      ELSE res.ret.nil
                   /\ res.diags = EmittedByValidate(log)

\* C3 witness: FromMap on a map of two entries whose map Type accepts the
\* first entry visited with a warning and rejects the second
C3_Witness ==
    /\ Done("FromMap")
    /\ ~call.val.isNil
    /\ Cardinality(DOMAIN call.val.entries) = 2
    /\ res.ret.nil
    /\ Len(res.diags) >= 3
    /\ res.diags[1].severity = "warning"
    /\ res.diags[Len(res.diags)].kind = "TestErrorDiagnostic"
    /\ res.log[Len(res.log)].ev = "Validate"
    /\ res.log[Len(res.log)].on = "MapType"
    /\ Cardinality({ j \in 1..Len(res.log) : res.log[j].ev = "FromValue" }) = 2

(***************************************************************************)
(* Claims about Map and FromMap.                                           *)
(***************************************************************************)
\* a call of Map that reaches its loop over the entries
MapAccepted ==
    /\ call.target.kind = "map"
    /\ call.val.ty.kind = "map"
    /\ HasElementType(call.typ)

\* the conversion of the entry with key k of the raw map, on its own
OwnBuildValue(k) ==
    BuildValue(call.typ.elem, call.val.elems[k], ZeroOf(call.target.elemType),
               WithElementKeyString(call.path, k))

\* the conversion of the entry with key k, on its own, yields an error
OwnConversionFails(k) ==
    /\ ~OwnBuildValue(k).panic
    /\ HasError(OwnBuildValue(k).diags)

\* C1: when Map converts a map of several entries and the conversion of one
\* entry yields an error, the other entries are still attempted: every entry
\* is handed to BuildValue, and the returned Diagnostics hold the errors of
\* every entry whose own conversion fails.
C1_SiblingsAttempted ==
    (/\ Done("Map")
     /\ ~res.panic
     /\ MapAccepted
     /\ Cardinality(RawKeys(call.val)) >= 2
     /\ \E k \in RawKeys(call.val) : OwnConversionFails(k))
        => \A k \in RawKeys(call.val) :
               /\ \E j \in 1..Len(res.log) :
                      res.log[j] = EvBuildValue(call.typ.elem, call.val.elems[k],
                                                WithElementKeyString(call.path, k))
               /\ OwnConversionFails(k) =>
                      \A n \in 1..Len(OwnBuildValue(k).diags) :
                          OwnBuildValue(k).diags[n].severity = "error" =>
                              \E i \in 1..Len(res.diags) :
                                  res.diags[i] = OwnBuildValue(k).diags[n]

\* the acceptance part of C6: a target that is not a map, a raw value that
\* is not of map type or a Type without an element type gives exactly one
\* DiagIntoIncompatibleType at the path of the call, the target as it was,
\* and no entry converted
MapRejects ==
    (Done("Map") /\ ~res.panic /\ ~MapAccepted) =>
        /\ Len(res.diags) = 1
        /\ res.diags[1].kind = "DiagIntoIncompatibleType"
        /\ res.diags[1].severity = "error"
        /\ res.diags[1].path = call.path
        /\ res.ret = call.target
        /\ res.log = <<>>

\* every entry Map converts is converted with the element type of the Type
\* at the path of the call extended by the entry's key
MapEntryPaths ==
    (Done("Map") /\ MapAccepted) =>
        \A j \in 1..Len(res.log) :
            res.log[j].ev = "BuildValue" =>
                \E k \in RawKeys(call.val) :
                    res.log[j] = EvBuildValue(call.typ.elem, call.val.elems[k],
                                              WithElementKeyString(call.path, k))

\* C6: Map accepts only a target whose kind beneath the pointers is a map, a
\* raw value of map type and a Type with an element type, and otherwise
\* returns exactly one DiagIntoIncompatibleType at the path of the call and
\* converts no entry; when it accepts, every entry with key k is converted
\* with the element type at the path of the call extended by k.
C6_MapConvertsEveryEntry ==
    /\ MapRejects
    /\ MapEntryPaths
    /\ (Done("Map") /\ ~res.panic /\ MapAccepted) =>
           \A k \in RawKeys(call.val) :
               \E j \in 1..Len(res.log) :
                   res.log[j] = EvBuildValue(call.typ.elem, call.val.elems[k],
                                             WithElementKeyString(call.path, k))

\* the conversion of the entry with key k of the native map succeeds on its
\* own: FromValue, the element's ToTerraformValue, the validation of the raw
\* element against the element type and the validate hook on the element
EntryConverts(k) ==
    LET elemPath == WithElementKeyString(call.path, k)
        r == FromValue(call.typ.elem, call.val.entries[k], elemPath)
        t == ToTerraformValue(r.ret)
    IN  /\ ~r.panic
        /\ ~HasError(r.diags)
        /\ ~t.err
        /\ ValidateValue(call.typ.elem.tfType, t.payload)
        /\ ~validateBlock(call.typ, NewValue(call.typ.elem.tfType, t.payload),
                          elemPath, <<>>, <<>>).stop

\* C7: an error diagnostic of FromMap that originates in the conversion of
\* the entry with key k carries the path of the map extended by k; only a
\* failure of the map as a whole (a key that is not a string, the validation
\* or the materialization of the assembled map) carries the map's own path.
C7_PathPrecision ==
    (Done("FromMap") /\ ~call.val.isNil /\ ~res.panic) =>
        \A i \in 1..Len(res.diags) :
            res.diags[i].severity = "error" =>
                IF res.diags[i].path = call.path
                THEN \/ call.val.keyKind # "string"
                     \/ \A k \in DOMAIN call.val.entries : EntryConverts(k)
                ELSE \E k \in DOMAIN call.val.entries :
                         /\ res.diags[i].path = WithElementKeyString(call.path, k)
                         /\ ~EntryConverts(k)

\* C10: FromMap on a non-nil native map with keys that are not strings
\* returns nil and one error diagnostic at the path of the map, whatever the
\* entries and the order of the keys; no entry is converted and no map Value
\* is made.
C10_NonStringKeys ==
    (/\ Done("FromMap")
     /\ ~call.val.isNil
     /\ call.val.keyKind # "string"
     /\ DOMAIN call.val.entries # {})
        => /\ ~res.panic
           /\ res.ret.nil
           /\ Len(res.diags) = 1
           /\ res.diags[1].severity = "error"
           /\ res.diags[1].path = call.path
           /\ res.log = <<>>

\* C10 witness: a map of two entries with integer keys, inside an attribute,
\* whose entries would all convert, has been refused
C10_Witness ==
    /\ Done("FromMap")
    /\ ~call.val.isNil
    /\ call.val.keyKind = "int"
    /\ Cardinality(DOMAIN call.val.entries) = 2
    /\ call.path # <<>>
    /\ call.typ.validate = "none"
    /\ call.typ.vft = "ok"
    /\ res.ret.nil
    /\ HasError(res.diags)

(***************************************************************************)
(* Claims about the round trip of a map.                                   *)
(***************************************************************************)
\* Value equality: the same Go type holding the same data
ValueEqual(a, b) == a.goType = b.goType /\ a.raw = b.raw

\* no Validate call of Type t on one of the raw values returns an error
NeverRejects(t, raws) ==
    \A raw \in raws : ~HasError(Validate(t, raw, call.path))

\* the Type of the call is well formed and no hook or validation fails on
\* the native map of the call: its raw type is a map of the element's raw
\* type, every ToTerraformValue and ValueFromTerraform succeeds, and no
\* Validate call returns an error
RoundTripWellFormed ==
    LET raws == { call.val.entries[k].raw : k \in DOMAIN call.val.entries }
    IN  /\ call.typ.tfType = TfMap(call.typ.elem.tfType.kind)
        /\ call.typ.vft = "ok"
        /\ call.typ.elem.vft = "ok"
        /\ call.typ.elem.valType = "types.String"
        /\ \A k \in DOMAIN call.val.entries : call.val.entries[k].ttv = "ok"
        /\ NeverRejects(call.typ.elem, raws)
        /\ NeverRejects(call.typ, raws)
        /\ call.typ.validate # "error"

\* the first half of the round trip: FromMap returns a Value, without error,
\* whose raw value ValueToTerraform gives
RoundTripFromMapSucceeds ==
    (call.op = "RoundTrip" /\ RoundTripWellFormed /\ pc = "converted") =>
        /\ ~res.panic
        /\ ~res.ret.nil
        /\ ~HasError(res.diags)
        /\ ~ValueToTerraform(call.typ, res.ret).err

\* C11: for a native map m with string keys and a well-formed map Type with
\* no hook or validation failure, FromMap returns a Value and no error, and
\* Map on that Value's raw value, into a target of m's type, returns without
\* error a map with the keys of m whose elements equal those of m.
C11_MapRoundTrip ==
    (call.op = "RoundTrip" /\ RoundTripWellFormed) =>
        /\ pc = "converted" =>
               /\ ~res.panic
               /\ ~res.ret.nil
               /\ ~HasError(res.diags)
               /\ ~ValueToTerraform(call.typ, res.ret).err
        /\ pc = "done" =>
               /\ ~res.into.panic
               /\ ~HasError(res.into.diags)
               /\ DOMAIN res.into.ret.entries = DOMAIN call.val.entries
               /\ \A k \in DOMAIN call.val.entries :
                      ValueEqual(res.into.ret.entries[k], call.val.entries[k])

(***************************************************************************)
(* Claims about every converter.                                           *)
(***************************************************************************)
\* C12: no call of Map, FromMap, getStructTags, NewNullable, NewUnknownable,
\* NewValueConverter or NewAttributeValue panics, whatever it is handed: it
\* returns normally, with an error or an error diagnostic.
C12_NoPanic ==
    (/\ pc = "done"
     /\ call.op \in {"Map", "FromMap", "getStructTags", "NewNullable", "NewUnknownable",
                     "NewValueConverter", "NewAttributeValue"})
        => ~res.panic

\* the entries a call of Map or FromMap started to convert
EntriesStarted ==
    Cardinality({ j \in 1..Len(res.log) : res.log[j].ev \in {"BuildValue", "FromValue"} })

\* the entries of the map a call of Map or FromMap is handed
EntriesGiven ==
    IF call.op = "Map" THEN RawKeys(call.val) ELSE DOMAIN call.val.entries

\* C13: when the context is cancelled as Map or FromMap is entered, or
\* before one of the entries is converted, the call converts no further
\* entry and returns the diagnostics it has so far followed by a
\* cancellation diagnostic.
C13_CancellationObserved ==
    (/\ pc = "done"
     /\ call.op \in {"Map", "FromMap"}
     /\ "ctx" \in DOMAIN call
     /\ ~res.panic
     /\ call.ctx.after = 0 \/ call.ctx.after < Cardinality(EntriesGiven))
        => /\ EntriesStarted <= call.ctx.after
           /\ res.diags # <<>>
           /\ res.diags[Len(res.diags)].kind = "ContextCanceled"

(***************************************************************************)
(* Claims about ValueToTerraform.                                          *)
(***************************************************************************)
\* C14: ValueToTerraform returns a raw value only when the Value's
\* ToTerraformValue succeeded and its result fits the TerraformType of the
\* Value's Type, and that raw value is of exactly this type and holds that
\* result; when ToTerraformValue fails or the result does not fit, it
\* returns the empty raw value and the error of the step that failed.
C14_ValueToTerraform ==
    Done("ValueToTerraform") =>
        LET t == ToTerraformValue(call.val)
        IN  /\ t.err => res = [err |-> TRUE, from |-> "ToTerraformValue", val |-> EmptyValue]
            /\ (~t.err /\ ~ValidateValue(call.typ.tfType, t.payload))
                   => res = [err |-> TRUE, from |-> "ValidateValue", val |-> EmptyValue]
            /\ ~res.err =>
                   /\ ~t.err
                   /\ ValidateValue(call.typ.tfType, t.payload)
                   /\ res.val.ty = call.typ.tfType
                   /\ PayloadOf(res.val) = t.payload
            /\ res.err => res.val = EmptyValue

\* C14 witness: a Value of a string Type whose ToTerraformValue returned a
\* number has been refused
C14_Witness ==
    /\ Done("ValueToTerraform")
    /\ call.typ.tfType = TfString
    /\ call.val.ttv = "shape"
    /\ res.err
    /\ res.from = "ValidateValue"
    /\ res.val = EmptyValue

(***************************************************************************)
(* Claims about the failure of a capability hook.                          *)
(***************************************************************************)
\* C15: when the method NewNullable, NewUnknownable or NewValueConverter
\* looks up on the receiver is absent or returns an error, the call returns
\* the target it was given, as it was, and exactly one error diagnostic at
\* the path of the call; when the method returns nil the call returns the
\* new receiver, on which that one method was called, and no diagnostics.
C15_HookFailure ==
    (pc = "done" /\ call.op \in {"NewNullable", "NewUnknownable", "NewValueConverter"}) =>
        /\ call.target.hook \in {"err", "missing"} =>
               /\ ~res.panic
               /\ res.ret = call.target
               /\ Len(res.diags) = 1
               /\ res.diags[1].severity = "error"
               /\ res.diags[1].path = call.path
        /\ call.target.hook = "ok" =>
               /\ ~res.panic
               /\ res.diags = <<>>
               /\ res.ret # call.target
               /\ res.ret.goType = call.target.goType
               /\ Len(res.ret.calls) = 1
               /\ res.ret.calls = res.log

\* C15 witness: NewNullable, inside an attribute, for a target that was
\* null and whose SetNull returns an error, has returned that target
C15_Witness ==
    /\ Done("NewNullable")
    /\ call.target.hook = "err"
    /\ call.target.null
    /\ call.path # <<>>
    /\ res.ret = call.target
    /\ Len(res.log) = 1
    /\ HasError(res.diags)

(***************************************************************************)
(* Claims about what the converters from a native value return.           *)
(***************************************************************************)
\* C16: FromMap, FromNullable, FromUnknownable, FromValueCreator and
\* FromAttributeValue return a Value exactly when they succeed: nil whenever
\* the returned Diagnostics hold an error, a Value whenever they hold none.
C16_ValueIffSuccess ==
    (/\ pc = "done"
     /\ call.op \in {"FromMap", "FromNullable", "FromUnknownable", "FromValueCreator",
                     "FromAttributeValue"}
     /\ ~res.panic)
        => (res.ret.nil <=> HasError(res.diags))

\* the same for the four converters other than FromAttributeValue
ValueIffSuccessElsewhere ==
    (/\ pc = "done"
     /\ call.op \in {"FromMap", "FromNullable", "FromUnknownable", "FromValueCreator"}
     /\ ~res.panic)
        => (res.ret.nil <=> HasError(res.diags))

(***************************************************************************)
(* Claims about what Map returns.                                          *)
(***************************************************************************)
\* with an error Map returns the target it was given, holding what it held
TargetReturnedOnError ==
    (Done("Map") /\ ~res.panic /\ HasError(res.diags)) =>
        /\ res.ret = call.target
        /\ res.ret.entries = PriorEntries(call.target.elemType)

\* C17: Map leaves its target alone: with an error it returns the target it
\* was given, holding what it held; without one it returns a new map whose
\* keys are exactly the keys of the raw map, each holding the converted
\* element of that key; an empty or a null raw map gives a new, empty map.
C17_TargetUntouched ==
    /\ TargetReturnedOnError
    /\ (Done("Map") /\ ~res.panic /\ ~HasError(res.diags)) =>
           /\ res.ret.kind = "map"
           /\ res.ret.elemType = call.target.elemType
           /\ DOMAIN res.ret.entries = RawKeys(call.val)
           /\ \A k \in RawKeys(call.val) :
                  /\ ~OwnBuildValue(k).panic
                  /\ res.ret.entries[k] = OwnBuildValue(k).ret
    /\ (/\ Done("Map")
        /\ MapAccepted
        /\ call.target.ref # "nilpointer"
        /\ call.val.st # "unknown"
        /\ RawKeys(call.val) = {})
           => /\ ~res.panic
              /\ ~HasError(res.diags)
              /\ res.ret.kind = "map"
              /\ res.ret.entries = <<>>

(***************************************************************************)
(* Claims about the order in which the entries of a map are visited.      *)
(***************************************************************************)
\* what a call returns: whether it returned, the result and the Diagnostics
Outcome(r) == [panic |-> r.panic, ret |-> r.ret, diags |-> r.diags]

\* C18: what Map and FromMap return, the result and the Diagnostics with
\* their order, is the same for every order in which the entries of the map
\* are visited.
C18_OrderIndependent ==
    /\ Done("Map") =>
           \A o \in Orders(RawKeys(call.val)) :
               Outcome(Map(call.typ, call.val, call.target, call.path, o)) = Outcome(res)
    /\ Done("FromMap") =>
           \A o \in Orders(DOMAIN call.val.entries) :
               Outcome(FromMap(call.typ, call.val, call.path, o)) = Outcome(res)

====
